---- MODULE Spec2Model ----
(***************************************************************************)
(* State-machine model of asyncssh/stream.py: SSHStreamSession (receive   *)
(* buffering, the read-waiter and drain-waiter wake protocol, flow         *)
(* control) and the SSHReader / SSHWriter handles built on it.             *)
(*                                                                         *)
(* asyncio runs coroutines cooperatively on one loop: the code between two *)
(* "yield from" points runs without interleaving.  Every action below is   *)
(* therefore one channel callback, or one run of a coroutine from its call *)
(* (or its resumption) to its next suspension or its completion.           *)
(***************************************************************************)
EXTENDS Integers, Sequences, FiniteSets, TLC

\* ---------------------------------------------------------------- bounds
\* Total number of data units and out-of-band events the channel delivers
\* in one behaviour.
MaxData == 3

\* The receive window returned by chan.get_recv_window() (self._limit).
Limit == 2

\* ------------------------------------------------------------ vocabulary
\* The line separator and one other unit (byte or character).
NL == "\n"
Units == {"a", NL}

\* Datatypes: the primary one (None) and EXTENDED_DATA_STDERR.
Datatypes == {"None", "stderr"}

\* Coroutines (tasks) that call the reader / writer handles.
Tasks == {"t1", "t2"}

NoTask == "none"

\* The value of a waiter slot that holds the Future of a cancelled caller.
Cancelled == "cancelled"

\* Exceptions passed to connection_lost: None or a transport error.
NoExc == "None"
Excs == {"Err"}

\* The exception objects a server session queues for out-of-band events:
\* BreakReceived, SignalReceived, TerminalSizeChanged.
Markers == {"Break", "Signal", "TermSize"}

\* Queue items: a data chunk, or an exception object.
Data(s) == [exc |-> NoExc, chunk |-> s]
Exc(e) == [exc |-> e, chunk |-> <<>>]
IsExc(item) == item.exc # NoExc

\* All chunks of 1..k units.
RECURSIVE SeqsUpTo(_)
SeqsUpTo(k) ==
    IF k = 0 THEN {<<>>}
    ELSE LET S == SeqsUpTo(k - 1)
         IN  S \cup {Append(s, u) : s \in {x \in S : Len(x) = k - 1}, u \in Units}
Chunks(k) == SeqsUpTo(k) \ {<<>>}

VARIABLES
    recv_buf,        \* self._recv_buf: datatype -> list of chunks / exceptions
    recv_buf_len,    \* self._recv_buf_len
    read_waiter,     \* self._read_waiter: datatype -> task whose Future is in the
                     \* slot, NoTask for None, Cancelled for a cancelled Future
    eof_received,    \* self._eof_received
    connection_lost, \* self._connection_lost
    exception,       \* self._exception
    write_paused,    \* self._write_paused
    drain_waiters,   \* self._drain_waiters: list of tasks whose Future is in it
    last_flow,       \* last of chan.pause_reading() / chan.resume_reading()
    pc,              \* task -> "idle" | "blocked" (in yield from waiter) | "woken"
    call,            \* task -> the frame of its suspended coroutine
    ret,             \* outcome of the call that completed in the last step
    delivered,       \* history: datatype -> units passed to data_received and
                     \* out-of-band events queued, in arrival order
    consumed,        \* history: datatype -> units returned to callers and
                     \* out-of-band events raised in them, in order
    concurrent,      \* history: datatype -> a read was issued during another
    exc_raised,      \* history: datatype -> times a queued exception was raised
    eof_seen         \* history: datatype -> 1 once a read returned at EOF leaving
                     \* the queue empty, 2 once a later read completed

vars == <<recv_buf, recv_buf_len, read_waiter, eof_received, connection_lost,
          exception, write_paused, drain_waiters, last_flow, pc, call, ret,
          delivered, consumed, concurrent, exc_raised, eof_seen>>

session == <<recv_buf, recv_buf_len, read_waiter, eof_received, connection_lost,
             exception, write_paused, drain_waiters, last_flow>>

history == <<delivered, consumed, concurrent, exc_raised, eof_seen>>

\* ------------------------------------------------------------- helpers
RECURSIVE Flatten(_)
Flatten(q) == IF q = <<>> THEN <<>> ELSE Head(q).chunk \o Flatten(Tail(q))

TotalDelivered == Len(delivered["None"]) + Len(delivered["stderr"])

IsPrefix(s, t) == Len(s) <= Len(t) /\ SubSeq(t, 1, Len(s)) = s

\* The frame of a task that is not inside a call.
NoCall == [op |-> "none", dt |-> "None", n |-> 0, norig |-> 0, exact |-> FALSE,
           data |-> <<>>, nonempty |-> FALSE]

NoRet == [task |-> NoTask, op |-> "none", dt |-> "None", n |-> 0, exact |-> FALSE,
          fresh |-> FALSE, kind |-> "none", data |-> <<>>, expected |-> 0,
          exc |-> NoExc]

ReadOps == {"read", "readline"}

\* ---------------------------------------------------------------- Init
\* SSHStreamSession.__init__ followed by connection_made.
Init ==
    /\ recv_buf = [d \in Datatypes |-> <<>>]
    /\ recv_buf_len = 0
    /\ read_waiter = [d \in Datatypes |-> NoTask]
    /\ eof_received = FALSE
    /\ connection_lost = FALSE
    /\ exception = NoExc
    /\ write_paused = FALSE
    /\ drain_waiters = <<>>
    /\ last_flow = "none"
    /\ pc = [t \in Tasks |-> "idle"]
    /\ call = [t \in Tasks |-> NoCall]
    /\ ret = NoRet
    /\ delivered = [d \in Datatypes |-> <<>>]
    /\ consumed = [d \in Datatypes |-> <<>>]
    /\ concurrent = [d \in Datatypes |-> FALSE]
    /\ exc_raised = [d \in Datatypes |-> 0]
    /\ eof_seen = [d \in Datatypes |-> 0]

\* ----------------------------------------------------- channel contract
\* The channel delivers data and EOF only before EOF and before the close,
\* and connection_lost is its last callback.
ChanOpen == ~connection_lost
ChanCanDeliver == ChanOpen /\ ~eof_received

\* ------------------------------------------------------ wake primitives
\* _unblock_read over a set of datatypes: the Future in each occupied slot
\* gets its result (its task becomes runnable) and the slot is cleared.
\* Mutant of UnblockedPc: only the reader of the primary datatype is woken.
UnblockedPcBug(ds) ==
    [t \in Tasks |->
        IF "None" \in ds /\ read_waiter["None"] = t THEN "woken" ELSE pc[t]]

UnblockedPc(ds) ==
    [t \in Tasks |->
        IF \E d \in ds : read_waiter[d] = t THEN "woken" ELSE pc[t]]
UnblockedWaiter(ds) ==
    [d \in Datatypes |-> IF d \in ds THEN NoTask ELSE read_waiter[d]]

\* Mutant of DrainUnblockedPc: only the first waiter gets its result.
DrainUnblockedPcBug(p) ==
    [t \in Tasks |->
        IF drain_waiters # <<>> /\ drain_waiters[1] = t THEN "woken" ELSE p[t]]

\* _unblock_drain applied to a pc map.
DrainUnblockedPc(p) ==
    [t \in Tasks |->
        IF \E i \in 1..Len(drain_waiters) : drain_waiters[i] = t
        THEN "woken" ELSE p[t]]

\* ------------------------------------------------------------ callbacks
\* Mutant of AddLen: the counter counts chunks, not units.
AddLenBug(len, data) == len + 1

\* self._recv_buf_len += len(data) (line 275).
AddLen(len, data) == len + Len(data)

\* data_received(data, datatype)
DataReceived(d, data) ==
    /\ ret = NoRet
    /\ ChanCanDeliver
    /\ TotalDelivered + Len(data) <= MaxData
    /\ recv_buf' = [recv_buf EXCEPT ![d] = Append(@, Data(data))]
    /\ recv_buf_len' = AddLen(recv_buf_len, data)
    /\ pc' = UnblockedPc({d})
    /\ read_waiter' = UnblockedWaiter({d})
    /\ last_flow' = IF recv_buf_len' >= Limit THEN "pause" ELSE last_flow
    /\ delivered' = [delivered EXCEPT ![d] = @ \o data]
    /\ ret' = NoRet
    /\ UNCHANGED <<eof_received, connection_lost, exception, write_paused,
                   drain_waiters, call, consumed, concurrent, exc_raised, eof_seen>>

\* eof_received()
EofReceived ==
    /\ ret = NoRet
    /\ ChanCanDeliver
    /\ eof_received' = TRUE
    /\ pc' = UnblockedPc(Datatypes)
    /\ read_waiter' = UnblockedWaiter(Datatypes)
    /\ ret' = NoRet
    /\ UNCHANGED <<recv_buf, recv_buf_len, connection_lost, exception, write_paused,
                   drain_waiters, last_flow, call>>
    /\ UNCHANGED history

\* Mutant of LostQueuesExc: the error is queued after EOF as well.
LostQueuesExcBug(eof, exc) == exc # NoExc

\* Whether connection_lost(exc) queues exc on every datatype (lines 261-264).
LostQueuesExc(eof, exc) == ~eof /\ exc # NoExc

\* connection_lost(exc)
ConnectionLost(exc) ==
    /\ ret = NoRet
    /\ ChanOpen
    /\ connection_lost' = TRUE
    /\ exception' = exc
    /\ recv_buf' = IF LostQueuesExc(eof_received, exc)
                   THEN [d \in Datatypes |-> Append(recv_buf[d], Exc(exc))]
                   ELSE recv_buf
    /\ eof_received' = TRUE
    /\ read_waiter' = IF ~eof_received THEN UnblockedWaiter(Datatypes) ELSE read_waiter
    /\ LET p == IF ~eof_received THEN UnblockedPc(Datatypes) ELSE pc
       IN  pc' = IF write_paused THEN DrainUnblockedPc(p) ELSE p
    /\ drain_waiters' = IF write_paused THEN <<>> ELSE drain_waiters
    /\ ret' = NoRet
    /\ UNCHANGED <<recv_buf_len, write_paused, last_flow, call>>
    /\ UNCHANGED history

\* pause_writing()
PauseWriting ==
    /\ ret = NoRet
    /\ ChanOpen
    /\ write_paused' = TRUE
    /\ ret' = NoRet
    /\ UNCHANGED <<recv_buf, recv_buf_len, read_waiter, eof_received, connection_lost,
                   exception, drain_waiters, last_flow, pc, call>>
    /\ UNCHANGED history

\* resume_writing()
ResumeWriting ==
    /\ ret = NoRet
    /\ ChanOpen
    /\ write_paused' = FALSE
    /\ pc' = DrainUnblockedPc(pc)
    /\ drain_waiters' = <<>>
    /\ ret' = NoRet
    /\ UNCHANGED <<recv_buf, recv_buf_len, read_waiter, eof_received, connection_lost,
                   exception, last_flow, call>>
    /\ UNCHANGED history

\* Mutant of QueueMarker: the event is put at the head of the queue.
QueueMarkerBug(q, m) == <<Exc(m)>> \o q

\* self._recv_buf[None].append(BreakReceived(msec)) and its two siblings.
QueueMarker(q, m) == Append(q, Exc(m))

\* The body shared by break_received, signal_received and
\* terminal_size_changed: the event's exception object m is appended to the
\* primary queue and the primary reader is unblocked.
MarkerReceived(m) ==
    /\ ret = NoRet
    /\ ChanCanDeliver
    /\ TotalDelivered < MaxData
    /\ recv_buf' = [recv_buf EXCEPT !["None"] = QueueMarker(@, m)]
    /\ pc' = UnblockedPc({"None"})
    /\ read_waiter' = UnblockedWaiter({"None"})
    /\ delivered' = [delivered EXCEPT !["None"] = Append(@, m)]
    /\ ret' = NoRet
    /\ UNCHANGED <<recv_buf_len, eof_received, connection_lost, exception,
                   write_paused, drain_waiters, last_flow, call, consumed,
                   concurrent, exc_raised, eof_seen>>

\* break_received(msec)
BreakReceived == MarkerReceived("Break")

\* signal_received(signal)
SignalReceived == MarkerReceived("Signal")

\* terminal_size_changed(width, height, pixwidth, pixheight)
TerminalSizeChanged == MarkerReceived("TermSize")

\* --------------------------------------------------------- read helpers
\* recv_buf[0][:n] and recv_buf[0][n:]
Take(c, n) == SubSeq(c, 1, n)
\* Mutant of Drop: the split loses the unit after the prefix.
DropBug(c, n) == SubSeq(c, n + 2, Len(c))

Drop(c, n) == SubSeq(c, n + 1, Len(c))

\* recv_buf[0].find(sep) + 1: 1-based index of the first separator, 0 if none.
RECURSIVE FindFrom(_, _)
FindFrom(c, i) ==
    IF i > Len(c) THEN 0 ELSE IF c[i] = NL THEN i ELSE FindFrom(c, i + 1)
\* Mutant of FindSep: the index of the end of a chunk that holds a separator.
FindSepBug(c) == IF \E i \in 1..Len(c) : c[i] = NL THEN Len(c) ELSE 0

FindSep(c) == FindFrom(c, 1)

\* Mutant of PopExc: the exception is raised and left in the queue.
PopExcBug(q) == q

\* raise recv_buf.pop(0): the queue after the exception at its head is raised.
PopExc(q) == Tail(q)

\* The inner loop of read (lines 315-332) on queue q with n units wanted,
\* data collected so far (joined) and nonempty = truth value of the list
\* "data"; took counts the units removed from the queue.
RECURSIVE ReadLoop(_, _, _, _, _)
ReadLoop(q, n, data, nonempty, took) ==
    IF q = <<>> \/ n = 0
    THEN [q |-> q, n |-> n, data |-> data, nonempty |-> nonempty, took |-> took,
          raised |-> NoExc]
    ELSE IF IsExc(Head(q))
    THEN IF nonempty
         THEN [q |-> q, n |-> n, data |-> data, nonempty |-> nonempty,
               took |-> took, raised |-> NoExc]
         ELSE [q |-> PopExc(q), n |-> n, data |-> data, nonempty |-> nonempty,
               took |-> took, raised |-> Head(q).exc]
    ELSE LET c == Head(q).chunk
             l == Len(c)
         IN  IF n > 0 /\ l > n
             THEN [q |-> <<Data(Drop(c, n))>> \o Tail(q), n |-> 0,
                   data |-> data \o Take(c, n), nonempty |-> TRUE,
                   took |-> took + n, raised |-> NoExc]
             ELSE ReadLoop(Tail(q), n - l, data \o c, TRUE, took + l)

\* Mutant of ReadExit: a partial read does not end the call.
ReadExitBug(n, nonempty, exact, eof) == n = 0 \/ eof

\* The exit test of read's outer loop (line 337).
ReadExit(n, nonempty, exact, eof) ==
    n = 0 \/ (n > 0 /\ nonempty /\ ~exact) \/ eof

\* Mutant of IncompleteExpected: the shortfall alone is reported.
IncompleteExpectedBug(buf, n) == n

\* The expected count of IncompleteReadError(buf, len(buf) + n) (line 344).
IncompleteExpected(buf, n) == Len(buf) + n

\* The inner loop of readline (lines 357-377).  out tells how it ended:
\* "raise" (362), "deferred" (360), "line" (373) or "drained" (queue empty).
RECURSIVE LineLoop(_, _, _, _)
LineLoop(q, data, nonempty, took) ==
    IF q = <<>>
    THEN [q |-> q, data |-> data, nonempty |-> nonempty, took |-> took,
          out |-> "drained", raised |-> NoExc]
    ELSE IF IsExc(Head(q))
    THEN IF nonempty
         THEN [q |-> q, data |-> data, nonempty |-> nonempty, took |-> took,
               out |-> "deferred", raised |-> NoExc]
         ELSE [q |-> PopExc(q), data |-> data, nonempty |-> nonempty, took |-> took,
               out |-> "raise", raised |-> Head(q).exc]
    ELSE LET c == Head(q).chunk
             idx == FindSep(c)
         IN  IF idx > 0
             THEN [q |-> <<Data(Drop(c, idx))>> \o Tail(q),
                   data |-> data \o Take(c, idx), nonempty |-> TRUE,
                   took |-> took + idx, out |-> "line", raised |-> NoExc]
             ELSE LineLoop(Tail(q), data \o c, TRUE, took + Len(c))

\* Mutant of PutQueue: the call works on the queue of the primary datatype.
PutQueueBug(buf, d, q) == [buf EXCEPT !["None"] = q]

\* recv_buf = self._recv_buf[datatype] (lines 310, 352): the call changes
\* the list of its own datatype in place, here to q.
PutQueue(buf, d, q) == [buf EXCEPT ![d] = q]

\* ------------------------------------------------------ coroutine steps
\* A call of task t completes with outcome kind (and data, expected, exc).
Complete(t, op, d, norig, exact, fresh, kind, data, expected, exc) ==
    /\ pc' = [pc EXCEPT ![t] = "idle"]
    /\ call' = [call EXCEPT ![t] = NoCall]
    /\ ret' = [task |-> t, op |-> op, dt |-> d, n |-> norig, exact |-> exact,
               fresh |-> fresh, kind |-> kind, data |-> data,
               expected |-> expected, exc |-> exc]
    /\ consumed' = IF kind \in {"ret", "incomplete"} /\ op \in ReadOps
                   THEN [consumed EXCEPT ![d] = @ \o data]
                   ELSE IF kind = "exc" /\ op \in ReadOps /\ exc \in Markers
                   THEN [consumed EXCEPT ![d] = Append(@, exc)]
                   ELSE consumed
    /\ exc_raised' = IF kind = "exc" /\ op \in ReadOps
                     THEN [exc_raised EXCEPT ![d] = IF @ < 2 THEN @ + 1 ELSE @]
                     ELSE exc_raised
    /\ eof_seen' = IF op \in ReadOps /\ eof_seen[d] >= 1
                   THEN [eof_seen EXCEPT ![d] = 2]
                   ELSE IF op \in ReadOps /\ kind = "ret" /\ eof_received
                           /\ recv_buf'[d] = <<>>
                   THEN [eof_seen EXCEPT ![d] = 1]
                   ELSE eof_seen

\* _block_read (lines 215-224) reached by task t with frame f: the usage
\* error if the slot holds a Future, else a new Future and suspension.
BlockRead(t, f, fresh) ==
    IF read_waiter[f.dt] # NoTask
    THEN /\ Complete(t, f.op, f.dt, f.norig, f.exact, fresh, "usage", f.data, 0, NoExc)
         /\ UNCHANGED read_waiter
    ELSE /\ read_waiter' = [read_waiter EXCEPT ![f.dt] = t]
         /\ pc' = [pc EXCEPT ![t] = "blocked"]
         /\ call' = [call EXCEPT ![t] = f]
         /\ ret' = NoRet
         /\ UNCHANGED <<consumed, exc_raised, eof_seen>>

\* The flow-control request after a draining pass (lines 334-335, 370-371,
\* 379-380).
ResumeFlow(len) == IF len < Limit THEN "resume" ELSE last_flow

\* read(n, datatype, exact) from its start (fresh) or from its resumption,
\* to its next suspension or its end (lines 314-346).
ReadBody(t, d, n, norig, exact, data, nonempty, fresh) ==
    LET r == ReadLoop(recv_buf[d], n, data, nonempty, 0)
    IN  /\ recv_buf' = PutQueue(recv_buf, d, r.q)
        /\ recv_buf_len' = recv_buf_len - r.took
        /\ IF r.raised # NoExc
           THEN /\ Complete(t, "read", d, norig, exact, fresh, "exc", r.data, 0, r.raised)
                /\ UNCHANGED <<read_waiter, last_flow>>
           ELSE /\ last_flow' = ResumeFlow(recv_buf_len')
                /\ IF ReadExit(r.n, r.nonempty, exact, eof_received)
                   THEN /\ IF r.n > 0 /\ exact
                           THEN Complete(t, "read", d, norig, exact, fresh, "incomplete",
                                         r.data, IncompleteExpected(r.data, r.n), NoExc)
                           ELSE Complete(t, "read", d, norig, exact, fresh, "ret",
                                         r.data, 0, NoExc)
                        /\ UNCHANGED read_waiter
                   ELSE BlockRead(t, [op |-> "read", dt |-> d, n |-> r.n,
                                      norig |-> norig, exact |-> exact,
                                      data |-> r.data, nonempty |-> r.nonempty], fresh)

\* readline(datatype) from its start or its resumption (lines 356-385).
ReadlineBody(t, d, data, nonempty, fresh) ==
    LET r == LineLoop(recv_buf[d], data, nonempty, 0)
    IN  /\ recv_buf' = PutQueue(recv_buf, d, r.q)
        /\ recv_buf_len' = recv_buf_len - r.took
        /\ CASE r.out = "raise" ->
                /\ Complete(t, "readline", d, 0, FALSE, fresh, "exc", r.data, 0, r.raised)
                /\ UNCHANGED <<read_waiter, last_flow>>
             [] r.out = "deferred" ->
                /\ Complete(t, "readline", d, 0, FALSE, fresh, "ret", r.data, 0, NoExc)
                /\ UNCHANGED <<read_waiter, last_flow>>
             [] r.out = "line" ->
                /\ last_flow' = ResumeFlow(recv_buf_len')
                /\ Complete(t, "readline", d, 0, FALSE, fresh, "ret", r.data, 0, NoExc)
                /\ UNCHANGED read_waiter
             [] r.out = "drained" ->
                /\ last_flow' = ResumeFlow(recv_buf_len')
                /\ IF eof_received
                   THEN /\ Complete(t, "readline", d, 0, FALSE, fresh, "ret",
                                    r.data, 0, NoExc)
                        /\ UNCHANGED read_waiter
                   ELSE BlockRead(t, [op |-> "readline", dt |-> d, n |-> 0,
                                      norig |-> 0, exact |-> FALSE,
                                      data |-> r.data, nonempty |-> r.nonempty], fresh)

\* Whether another task is inside a read or readline on datatype d.
OtherReading(t, d) ==
    \E u \in Tasks \ {t} : pc[u] # "idle" /\ call[u].op \in ReadOps /\ call[u].dt = d

NoteConcurrent(t, d) ==
    concurrent' = [concurrent EXCEPT ![d] = @ \/ OtherReading(t, d)]

\* SSHReader.read(n) / SSHReader.readexactly(n) called by an idle task.
Read(t, d, n, exact) ==
    /\ ret = NoRet
    /\ pc[t] = "idle"
    /\ ReadBody(t, d, n, n, exact, <<>>, FALSE, TRUE)
    /\ NoteConcurrent(t, d)
    /\ UNCHANGED <<eof_received, connection_lost, exception, write_paused,
                   drain_waiters, delivered>>

\* SSHReader.readline() called by an idle task.
Readline(t, d) ==
    /\ ret = NoRet
    /\ pc[t] = "idle"
    /\ ReadlineBody(t, d, <<>>, FALSE, TRUE)
    /\ NoteConcurrent(t, d)
    /\ UNCHANGED <<eof_received, connection_lost, exception, write_paused,
                   drain_waiters, delivered>>

\* Mutant of DrainExc: broken pipe whenever no error was recorded.
DrainExcBug(lost, exc, paused) ==
    IF lost
    THEN IF exc = NoExc THEN "BrokenPipeError" ELSE exc
    ELSE NoExc

\* The exception drain raises after its wait, "None" if it returns (396-403).
DrainExc(lost, exc, paused) ==
    IF lost
    THEN IF exc = NoExc /\ paused THEN "BrokenPipeError" ELSE exc
    ELSE NoExc

\* The end of drain (lines 396-403).
DrainFinish(t, fresh) ==
    LET e == DrainExc(connection_lost, exception, write_paused)
    IN  Complete(t, "drain", "None", 0, FALSE, fresh,
                 IF e = NoExc THEN "ret" ELSE "exc", <<>>, 0, e)

\* SSHWriter.drain() called by an idle task (lines 388-403).
Drain(t) ==
    /\ ret = NoRet
    /\ pc[t] = "idle"
    /\ IF write_paused /\ ~connection_lost
       THEN /\ drain_waiters' = Append(drain_waiters, t)
            /\ pc' = [pc EXCEPT ![t] = "blocked"]
            /\ call' = [call EXCEPT ![t] = [NoCall EXCEPT !.op = "drain"]]
            /\ ret' = NoRet
            /\ UNCHANGED <<consumed, exc_raised, eof_seen>>
       ELSE /\ DrainFinish(t, TRUE)
            /\ UNCHANGED drain_waiters
    /\ UNCHANGED <<recv_buf, recv_buf_len, read_waiter, eof_received, connection_lost,
                   exception, write_paused, last_flow, delivered, concurrent>>

\* The loop runs a task whose Future got its result: the coroutine goes on
\* after its "yield from waiter".
Resume(t) ==
    /\ ret = NoRet
    /\ pc[t] = "woken"
    /\ CASE call[t].op = "read" ->
                /\ ReadBody(t, call[t].dt, call[t].n, call[t].norig, call[t].exact,
                            call[t].data, call[t].nonempty, FALSE)
                /\ UNCHANGED drain_waiters
         [] call[t].op = "readline" ->
                /\ ReadlineBody(t, call[t].dt, call[t].data, call[t].nonempty, FALSE)
                /\ UNCHANGED drain_waiters
         [] call[t].op = "drain" ->
                /\ DrainFinish(t, FALSE)
                /\ UNCHANGED <<recv_buf, recv_buf_len, read_waiter, last_flow,
                               drain_waiters>>
    /\ UNCHANGED <<eof_received, connection_lost, exception, write_paused,
                   delivered, concurrent>>

\* The task t, suspended in _block_read, is cancelled: its Future is
\* cancelled and CancelledError unwinds _block_read and read / readline,
\* which have no handler for it; the cancelled Future stays in the slot.
Cancel(t) ==
    /\ ret = NoRet
    /\ pc[t] = "blocked"
    /\ call[t].op \in ReadOps
    /\ read_waiter' = [d \in Datatypes |->
                          IF read_waiter[d] = t THEN Cancelled ELSE read_waiter[d]]
    /\ pc' = [pc EXCEPT ![t] = "idle"]
    /\ call' = [call EXCEPT ![t] = NoCall]
    /\ ret' = NoRet
    /\ UNCHANGED <<recv_buf, recv_buf_len, eof_received, connection_lost, exception,
                   write_paused, drain_waiters, last_flow>>
    /\ UNCHANGED history

\* The caller takes the result of the call that completed in the last step.
Return ==
    /\ ret # NoRet
    /\ ret' = NoRet
    /\ UNCHANGED session
    /\ UNCHANGED <<pc, call>>
    /\ UNCHANGED history

\* The values of n the callers pass: -1 is "no limit".
ReadNs == {-1, 0, 1, 2}
ExactNs == {0, 1, 2}

\* The reader tasks and the datatypes they read, per specification.
Primary == {"None"}
OneTask == {"t1"}

\* The channel's callbacks on the read side, data arriving on datatypes ds.
Receive(ds) ==
    \/ \E d \in ds : \E data \in Chunks(MaxData) : DataReceived(d, data)
    \/ EofReceived
    \/ \E exc \in Excs \cup {NoExc} : ConnectionLost(exc)

\* Tasks ts calling read, readexactly and readline on datatypes ds.
Readers(ts, ds) ==
    \/ \E t \in ts : \E d \in ds : \E n \in ReadNs : Read(t, d, n, FALSE)
    \/ \E t \in ts : \E d \in ds : \E n \in ExactNs : Read(t, d, n, TRUE)
    \/ \E t \in ts : \E d \in ds : Readline(t, d)
    \/ \E t \in ts : Resume(t)
    \/ Return

\* One reader task reading the datatypes of a client channel: the documented
\* use of a stream, one read at a time on a datatype.
Next ==
    \/ Receive(Datatypes)
    \/ Readers(OneTask, Datatypes)

Spec == Init /\ [][Next]_vars

\* Two tasks reading the primary datatype concurrently.
NextRace ==
    \/ Receive(Primary)
    \/ Readers(Tasks, Primary)

SpecRace == Init /\ [][NextRace]_vars

\* The write side: tasks calling drain against the channel's callbacks.
NextDrain ==
    \/ PauseWriting
    \/ ResumeWriting
    \/ EofReceived
    \/ \E exc \in Excs \cup {NoExc} : ConnectionLost(exc)
    \/ \E t \in Tasks : Drain(t)
    \/ \E t \in Tasks : Resume(t)
    \/ Return

SpecDrain == Init /\ [][NextDrain]_vars

\* A server session: the channel delivers data and out-of-band events on
\* the primary datatype, and one handler task reads it.
NextServer ==
    \/ Receive(Primary)
    \/ BreakReceived
    \/ SignalReceived
    \/ TerminalSizeChanged
    \/ Readers(OneTask, Primary)

SpecServer == Init /\ [][NextServer]_vars

\* A reader task whose suspended calls can be cancelled.
NextCancel ==
    \/ Receive(Primary)
    \/ Readers(OneTask, Primary)
    \/ \E t \in OneTask : Cancel(t)

SpecCancel == Init /\ [][NextCancel]_vars

\* at_eof(datatype) (line 293): "not recv_buf" is the emptiness of the list.
AtEof(d) == eof_received /\ recv_buf[d] = <<>>

\* ------------------------------------------------------------- claims
\* A task is inside a read or readline on datatype d.
Reading(t, d) == pc[t] # "idle" /\ call[t].op \in ReadOps /\ call[t].dt = d

\* A task is suspended in _block_read on datatype d, its Future unresolved.
Suspended(t, d) == pc[t] = "blocked" /\ call[t].op \in ReadOps /\ call[t].dt = d

\* Whether the last step completed a read, readexactly or readline.
ReadDone == ret.task # NoTask /\ ret.op \in ReadOps

\* Units still unread in the queue of datatype d.
Unread(d) == Flatten(recv_buf[d])

\* C1: with a single reader on a datatype, the results returned so far
\* (including the partial data of an incomplete-read error), concatenated,
\* are a prefix of the chunks delivered on it, concatenated in delivery
\* order; once EOF is received, the queue holds no data and no read is in
\* progress, the two are equal.
C1_OrderPreserved ==
    \A d \in Datatypes :
        ~concurrent[d] =>
            /\ IsPrefix(consumed[d], delivered[d])
            /\ (eof_received /\ Unread(d) = <<>> /\ \A t \in Tasks : ~Reading(t, d))
                  => consumed[d] = delivered[d]

\* C1 witness: after EOF a readexactly that suspended ends with the
\* incomplete-read error, and all three delivered units, of both kinds,
\* have been recovered in order.
C1_Witness ==
    /\ eof_received
    /\ ret.kind = "incomplete" /\ ~ret.fresh /\ Len(ret.data) >= 1
    /\ Len(delivered[ret.dt]) >= 3
    /\ consumed[ret.dt] = delivered[ret.dt]
    /\ \E i, j \in 1..Len(delivered[ret.dt]) :
          delivered[ret.dt][i] = "a" /\ delivered[ret.dt][j] = NL

\* C2: with a single reader on the datatype, a readexactly(n), n > 0,
\* returns exactly n units, or raises the incomplete-read error after EOF
\* with expected = n (partial length plus shortfall), or raises a queued
\* terminal error having collected no data.
C2_ExactLength ==
    (ReadDone /\ ret.op = "read" /\ ret.exact /\ ret.n > 0
        /\ ~concurrent[ret.dt]) =>
        \/ ret.kind = "ret" /\ Len(ret.data) = ret.n
        \/ /\ ret.kind = "incomplete"
           /\ ret.expected = ret.n
           /\ Len(ret.data) < ret.n
           /\ eof_received
        \/ ret.kind = "exc" /\ ret.exc \in Excs /\ ret.data = <<>>

\* C2 witness: a readexactly(2) that suspended with one unit collected ends
\* with the incomplete-read error carrying that unit.
C2_Witness ==
    /\ ReadDone /\ ret.op = "read" /\ ret.exact /\ ret.n = 2
    /\ ret.kind = "incomplete" /\ ~ret.fresh /\ Len(ret.data) = 1

\* C3: a read(n), n > 0, returns an empty result only when EOF has been
\* received and the queue of its datatype holds no further data.
C3_EmptyOnlyAtEof ==
    (ReadDone /\ ret.op = "read" /\ ~ret.exact /\ ret.n > 0
        /\ ret.kind = "ret" /\ ret.data = <<>>)
    => (eof_received /\ Unread(ret.dt) = <<>>)

\* C4: at_eof(datatype) is true exactly when EOF has been received and no
\* unread data unit remains for the datatype.
C4_AtEofIffDrained ==
    \A d \in Datatypes : AtEof(d) <=> (eof_received /\ Unread(d) = <<>>)

\* C4, on the queues that hold no terminal error: the same equivalence.
C4_AtEofNoError ==
    \A d \in Datatypes :
        (\A i \in 1..Len(recv_buf[d]) : ~IsExc(recv_buf[d][i]))
        => (AtEof(d) <=> (eof_received /\ Unread(d) = <<>>))

\* C5: while a read, readexactly or readline of one task on a datatype has
\* not completed, a read issued by another task on that datatype (for n # 0:
\* a read of 0 units returns at once) fails with the usage error and does
\* not suspend; the usage error is raised only in a call just issued, never
\* in a read resumed from its suspension.
C5_SecondReaderRejected ==
    /\ ret.kind = "usage" => ret.fresh
    /\ \A u \in Tasks :
          (ReadDone /\ ret.task # u /\ Reading(u, ret.dt) /\ ret.fresh
              /\ ~(ret.op = "read" /\ ret.n = 0))
          => ret.kind = "usage"
    /\ \A t, u \in Tasks : \A d \in Datatypes :
          (t # u /\ Reading(t, d)) => ~Reading(u, d)

\* A terminal error is queued on datatype d.
ErrQueued(d) == \E i \in 1..Len(recv_buf[d]) : IsExc(recv_buf[d][i])

\* C6, as stated, its last sentence: a reader suspended on an empty queue
\* when connection_lost(err) arrives is woken and receives err.
C6_SuspendedReaderGetsErr ==
    [][\A t \in Tasks :
          (pc[t] = "woken" /\ call[t].op \in ReadOps
              /\ recv_buf[call[t].dt] = <<Exc("Err")>> /\ pc'[t] = "idle")
          => (ret'.kind = "exc" /\ ret'.exc = "Err")]_vars

C6_Inv ==
    \A d \in Datatypes :
        /\ exc_raised[d] <= 1
        /\ \A i \in 1..Len(recv_buf[d]) :
              IsExc(recv_buf[d][i]) => i = Len(recv_buf[d])
        /\ exc_raised[d] = 1 =>
              /\ recv_buf[d] = <<>>
              /\ eof_received
              /\ \A t \in Tasks : ~Suspended(t, d)
        /\ (ReadDone /\ ret.dt = d /\ ret.kind = "exc") =>
              /\ ret.exc = exception
              /\ ret.data = <<>>
              /\ ~concurrent[d] => consumed[d] = delivered[d]
        /\ (ReadDone /\ ret.dt = d /\ exc_raised[d] = 1 /\ ret.kind # "exc"
              /\ ret.fresh /\ ~(ret.exact /\ ret.n > 0)) =>
              (ret.kind = "ret" /\ ret.data = <<>>)

C6_Step ==
    \A d \in Datatypes :
        /\ (~connection_lost /\ connection_lost' /\ exception' \in Excs
              /\ ~eof_received)
           => recv_buf'[d] = Append(recv_buf[d], Exc(exception'))
        /\ (ErrQueued(d) /\ ~ErrQueued(d)')
           => (ret'.kind = "exc" /\ ret'.dt = d /\ ret'.exc = exception)
        /\ \A t \in Tasks :
              (pc[t] = "woken" /\ Reading(t, d)
                  /\ recv_buf[d] = <<Exc("Err")>> /\ pc'[t] = "idle")
              => IF ~call[t].nonempty
                 THEN ret'.kind = "exc" /\ ret'.exc = "Err"
                 ELSE /\ ret'.kind \in {"ret", "incomplete"}
                      /\ ret'.data = call[t].data
                      /\ recv_buf'[d] = recv_buf[d]

\* C6, amended: the error passed to connection_lost before EOF is queued on
\* every datatype behind the data, leaves a queue only by being raised, is
\* raised at most once per datatype and only by a read that has collected
\* nothing, after all data delivered on the datatype has been returned;
\* later read and readline calls return an empty result and none suspends.
\* A reader suspended on an empty queue when the error arrives is woken and
\* receives it if it has collected no chunk; otherwise it ends with the
\* data it has collected and the error stays queued for the next call.
C6_TerminalErrorOnce == []C6_Inv /\ [][C6_Step]_vars

\* C6 witness: the error has been raised once on each datatype, and a
\* later readline on a datatype that carried data returned an empty result.
C6_Witness ==
    /\ \A d \in Datatypes : exc_raised[d] = 1
    /\ ReadDone /\ ret.op = "readline" /\ ret.kind = "ret" /\ ret.data = <<>>
    /\ Len(delivered[ret.dt]) >= 1

NoInnerSep(s) == \A i \in 1..(Len(s) - 1) : s[i] # NL
EndsWithSep(s) == Len(s) >= 1 /\ s[Len(s)] = NL

\* C7: readline returns the queued data up to and including the first
\* separator and leaves what follows it queued, in order; the line holds no
\* separator but its last unit; a line without a separator is returned only
\* at EOF with the data exhausted; a terminal error is raised only when
\* nothing has been accumulated, and is then removed.
C7_Readline ==
    (ReadDone /\ ret.op = "readline" /\ ~concurrent[ret.dt]) =>
        /\ ret.kind \in {"ret", "exc"}
        /\ ret.kind = "ret" =>
              /\ NoInnerSep(ret.data)
              /\ consumed[ret.dt] \o Unread(ret.dt) = delivered[ret.dt]
              /\ ~EndsWithSep(ret.data) =>
                    (eof_received /\ Unread(ret.dt) = <<>>)
        /\ ret.kind = "exc" =>
              /\ ret.data = <<>>
              /\ ~ErrQueued(ret.dt)

\* C7 witness: a readline that suspended after the chunk "a" returns "a\n"
\* from the next chunk and leaves the rest of that chunk at the queue head.
C7_Witness ==
    /\ ReadDone /\ ret.op = "readline" /\ ~ret.fresh /\ ret.kind = "ret"
    /\ ret.data = <<"a", NL>>
    /\ recv_buf[ret.dt] = <<Data(<<"a">>)>>

\* The step is a call of read(n), n > 0, by the idle task t on datatype d.
NonExactCall(t, d) ==
    /\ pc[t] = "idle"
    /\ \/ /\ ret'.task = t /\ ret'.fresh /\ ret'.op = "read" /\ ~ret'.exact
          /\ ret'.n > 0 /\ ret'.dt = d
       \/ /\ pc'[t] = "blocked" /\ call'[t].op = "read" /\ ~call'[t].exact
          /\ call'[t].norig > 0 /\ call'[t].dt = d

\* The step resumes the read(n), n > 0, of task t on datatype d.
NonExactResume(t, d) ==
    /\ pc[t] = "woken" /\ pc'[t] # "woken"
    /\ call[t].op = "read" /\ ~call[t].exact /\ call[t].norig > 0
    /\ call[t].dt = d

ReturnsSome(r) == r.kind = "ret" /\ 1 <= Len(r.data) /\ Len(r.data) <= r.n

C9_EofIdempotent ==
    \A d \in Datatypes :
        /\ eof_seen[d] >= 1 => \A t \in Tasks : ~Suspended(t, d)
        /\ (eof_seen[d] = 2 /\ ReadDone /\ ret.dt = d /\ ret.fresh
               /\ ~(ret.exact /\ ret.n > 0))
           => (ret.kind = "ret" /\ ret.data = <<>>)

\* C9 witness: after EOF was observed and connection_lost(err) followed,
\* a read on the datatype returned an empty result.
C9_Witness ==
    /\ connection_lost /\ exception = "Err"
    /\ ReadDone /\ ret.op = "read" /\ ret.n > 0
    /\ eof_seen[ret.dt] = 2 /\ exc_raised[ret.dt] = 0
    /\ ret.kind = "ret" /\ ret.data = <<>>

C10_Inv ==
    (ret.task # NoTask /\ ret.op = "drain") =>
        IF connection_lost
        THEN IF exception # NoExc
             THEN ret.kind = "exc" /\ ret.exc = exception
             ELSE IF write_paused
             THEN ret.kind = "exc" /\ ret.exc = "BrokenPipeError"
             ELSE ret.kind = "ret"
        ELSE ret.kind = "ret"

C10_Step ==
    \A t \in Tasks :
        (pc[t] = "idle" /\ pc'[t] = "blocked" /\ call'[t].op = "drain")
        => (write_paused /\ ~connection_lost)

\* C10: a drain that completes raises the recorded error if the connection
\* is lost, the broken-pipe error if it is lost with no error recorded and
\* writing still paused, and returns normally otherwise; a drain suspends
\* only if writing is paused and the connection not lost when it is called.
C10_DrainOutcome == []C10_Inv /\ [][C10_Step]_vars

\* C10 witness: a drain that suspended was woken by connection_lost(None)
\* and raised the broken-pipe error.
C10_Witness ==
    /\ ret.op = "drain" /\ ~ret.fresh
    /\ ret.kind = "exc" /\ ret.exc = "BrokenPipeError"

\* An out-of-band event is queued on datatype d.
MarkerQueued(d) ==
    \E i \in 1..Len(recv_buf[d]) : recv_buf[d][i].exc \in Markers

\* C11: in a server session, a read(-1) that is in progress (suspended, or
\* woken and not yet resumed) when a break, signal or terminal-size event is
\* queued on the primary datatype completes at its resumption, with the data
\* collected before the event or by raising the event: it does not suspend
\* again to wait for EOF.
C11_UnlimitedReadEndsAtMarker ==
    [][\A t \in Tasks :
          (pc[t] = "woken" /\ call[t].op = "read" /\ call[t].norig = -1
              /\ call[t].dt = "None" /\ MarkerQueued("None") /\ pc'[t] # "woken")
          => /\ pc'[t] = "idle"
             /\ \/ ret'.kind = "ret"
                \/ ret'.kind = "exc" /\ ret'.exc \in Markers /\ ~call[t].nonempty]_vars

C18_Inv ==
    ~concurrent["None"] =>
        /\ IsPrefix(consumed["None"], delivered["None"])
        /\ (eof_received /\ Unread("None") = <<>> /\ ~MarkerQueued("None")
               /\ \A t \in Tasks : ~Reading(t, "None"))
           => consumed["None"] = delivered["None"]

C18_Step ==
    /\ \A m \in Markers :
          (delivered'["None"] = Append(delivered["None"], m))
          => /\ recv_buf'["None"] = Append(recv_buf["None"], Exc(m))
             /\ read_waiter'["None"] = NoTask
             /\ \A t \in Tasks : Suspended(t, "None") => pc'[t] = "woken"
    /\ \A m \in Markers :
          (consumed'["None"] = Append(consumed["None"], m))
          => /\ recv_buf["None"] # <<>> /\ Head(recv_buf["None"]) = Exc(m)
             /\ recv_buf'["None"] = Tail(recv_buf["None"])
             /\ ret'.kind = "exc" /\ ret'.exc = m /\ ret'.data = <<>>

\* C18: in a server session the break, signal and terminal-size events are
\* queued on the primary datatype in arrival order among the data chunks and
\* wake its suspended reader; a single reader's successive read / readline
\* results and raised events, in order, are a prefix of the arrival sequence
\* of data units and events (so every unit delivered before an event is
\* returned before it is raised, each event is raised at most once, and
\* later data follows it), and the whole sequence once EOF is received and
\* the queue holds neither data nor event.
C18_MarkersInOrder == []C18_Inv /\ [][C18_Step]_vars

\* C18 witness: a reader has been returned "a", then raised the break
\* event, then been returned the unit delivered after it, up to EOF.
C18_Witness ==
    /\ ReadDone /\ ret.kind = "ret" /\ ret.data # <<>>
    /\ Len(consumed["None"]) = 3
    /\ consumed["None"][1] = "a"
    /\ consumed["None"][2] = "Break"
    /\ consumed["None"] = delivered["None"]
    /\ eof_received /\ recv_buf["None"] = <<>>

\* C12: after the cancellation of a task suspended in read / readline on a
\* datatype, the waiter slot of the datatype is released: a read issued
\* afterwards is not rejected with the usage error, which is raised only
\* while another task is inside a read on the datatype.
C12_CancelReleasesSlot ==
    (ReadDone /\ ret.kind = "usage")
    => \E u \in Tasks \ {ret.task} : Reading(u, ret.dt)

\* The units of the data chunks queued on all datatypes.
QueuedLen == Len(Unread("None")) + Len(Unread("stderr"))

\* C13: in every reachable state recv_buf_len equals the sum of the lengths
\* of the data chunks queued on all datatypes, exception entries excluded,
\* and is not negative.
C13_RecvBufLen == recv_buf_len = QueuedLen /\ recv_buf_len >= 0

\* C13 witness: a read has returned the first unit of a chunk split at the
\* head of the primary queue, whose rest is queued in front of the terminal
\* error, and a chunk is queued on the other datatype.
C13_Witness ==
    /\ ReadDone /\ ret.dt = "None" /\ ret.kind = "ret" /\ Len(ret.data) = 1
    /\ Len(recv_buf["None"]) = 2
    /\ ~IsExc(recv_buf["None"][1]) /\ Len(recv_buf["None"][1].chunk) = 1
    /\ IsExc(recv_buf["None"][2])
    /\ Len(Unread("stderr")) = 1
    /\ recv_buf_len = 2

\* C14: data_received requests pause_reading exactly when recv_buf_len has
\* reached the limit after the append, and a run of read or readline that
\* removed data from a queue requests resume_reading, before it exits or
\* suspends, exactly when recv_buf_len is then below the limit.
C14_WatermarkSymmetry ==
    [][/\ (\E d \in Datatypes : \E u \in Units :
              Len(delivered'[d]) > Len(delivered[d])
                  /\ delivered'[d][Len(delivered'[d])] = u)
          => IF recv_buf_len' >= Limit
             THEN last_flow' = "pause"
             ELSE last_flow' = last_flow
       /\ recv_buf_len' < recv_buf_len
          => IF recv_buf_len' < Limit
             THEN last_flow' = "resume"
             ELSE last_flow' = last_flow]_vars

IsSuffix(s, t) == Len(s) <= Len(t) /\ SubSeq(t, Len(t) - Len(s) + 1, Len(t)) = s

\* Queue q2 is what is left of queue q1 after entries, and possibly a prefix
\* of the following data chunk, have been removed from its head.
Shrunk(q2, q1) ==
    \/ IsSuffix(q2, q1)
    \/ /\ q2 # <<>>
       /\ Len(q2) <= Len(q1)
       /\ IsSuffix(Tail(q2), q1)
       /\ ~IsExc(Head(q2))
       /\ ~IsExc(q1[Len(q1) - Len(q2) + 1])
       /\ IsSuffix(Head(q2).chunk, q1[Len(q1) - Len(q2) + 1].chunk)

C16_Inv ==
    eof_received =>
        /\ \A d \in Datatypes : read_waiter[d] = NoTask
        /\ \A t \in Tasks : \A d \in Datatypes : ~Suspended(t, d)

C16_Step ==
    /\ (~eof_received /\ eof_received')
       => \A t \in Tasks :
             (pc[t] = "blocked" /\ call[t].op \in ReadOps) => pc'[t] = "woken"
    /\ eof_received
       => /\ \A t \in Tasks :
                (pc[t] # pc'[t] /\ (call[t].op \in ReadOps \/ call'[t].op \in ReadOps))
                => pc'[t] = "idle"
          /\ (ret' # NoRet /\ ret'.op \in ReadOps)
             => ret'.kind \in {"ret", "incomplete", "exc"}

\* C16: eof_received and connection_lost wake every reader suspended on any
\* datatype; while eof_received is true every waiter slot is empty and no
\* reader is suspended; a read, readexactly or readline issued or resumed
\* then ends in that step, with a result, the incomplete-read error or a
\* queued exception.
C16_EofWakesAll == []C16_Inv /\ [][C16_Step]_vars

\* C16 witness: a readexactly suspended on stderr with one unit collected
\* was woken by eof_received and has ended with the incomplete-read error.
C16_Witness ==
    /\ eof_received /\ ~connection_lost
    /\ ReadDone /\ ret.dt = "stderr" /\ ~ret.fresh
    /\ ret.kind = "incomplete" /\ Len(ret.data) = 1

\* Task t is suspended in drain, its Future unresolved.
DrainSuspended(t) == pc[t] = "blocked" /\ call[t].op = "drain"

C17_Inv ==
    /\ drain_waiters # <<>> => (write_paused /\ ~connection_lost)
    /\ \A t \in Tasks :
          DrainSuspended(t) <=> \E i \in 1..Len(drain_waiters) : drain_waiters[i] = t

C17_Step ==
    /\ ((write_paused /\ ~write_paused') \/ (~connection_lost /\ connection_lost'))
       => /\ drain_waiters' = <<>>
          /\ \A t \in Tasks : DrainSuspended(t) => pc'[t] = "woken"
    /\ \A t \in Tasks :
          (pc[t] = "woken" /\ call[t].op = "drain" /\ pc'[t] # "woken")
          => (pc'[t] = "idle" /\ ret'.task = t /\ ret'.op = "drain")

\* C17: the drain-waiter collection holds a token only while writing is
\* paused and the connection not lost, and holds the token of every
\* suspended drain; resume_writing and connection_lost resolve all of them
\* and empty the collection, and a drain so woken completes when it runs.
C17_NoStrandedDrain == []C17_Inv /\ [][C17_Step]_vars

\* C17 witness: two drains were suspended, connection_lost has woken both
\* and emptied the collection, and the first has completed.
C17_Witness ==
    /\ connection_lost /\ drain_waiters = <<>>
    /\ ret.op = "drain" /\ ~ret.fresh /\ ret.task = "t1"
    /\ pc["t2"] = "woken" /\ call["t2"].op = "drain"

\* The step is a run of a read, readexactly or readline on datatype d: the
\* call completes, or its task suspends.
ReadStep(d) ==
    \/ ret' # NoRet /\ ret'.op \in ReadOps /\ ret'.dt = d
    \/ \E t \in Tasks :
          pc[t] # "blocked" /\ pc'[t] = "blocked"
              /\ call'[t].op \in ReadOps /\ call'[t].dt = d

\* The terminal error is queued on datatype d.
TermErrQueued(d) == \E i \in 1..Len(recv_buf[d]) : recv_buf[d][i].exc \in Excs

C19_Inv ==
    (\E d \in Datatypes : TermErrQueued(d) \/ exc_raised[d] >= 1)
    => \A d \in Datatypes :
          \/ TermErrQueued(d) /\ exc_raised[d] = 0
          \/ ~TermErrQueued(d) /\ exc_raised[d] = 1

C19_Step ==
    \A d \in Datatypes :
        ReadStep(d)
        => \A e \in Datatypes \ {d} :
              /\ recv_buf'[e] = recv_buf[e]
              /\ read_waiter'[e] = read_waiter[e]

\* C19: a run of read, readexactly or readline on a datatype, whether it
\* returns, raises or suspends, leaves the queue and the waiter slot of
\* every other datatype unchanged; the terminal error queued on every
\* datatype is, on each, either still queued or has been raised there
\* exactly once, whatever was read on the others.
C19_DatatypeIsolation == []C19_Inv /\ [][C19_Step]_vars

\* C19 witness: the terminal error was raised on the primary datatype
\* first, stayed queued behind the data of stderr, and has now been raised
\* on stderr after its data was read.
C19_Witness ==
    /\ ReadDone /\ ret.dt = "stderr" /\ ret.kind = "exc" /\ ret.exc = "Err"
    /\ exc_raised["None"] = 1 /\ exc_raised["stderr"] = 1
    /\ Len(consumed["stderr"]) >= 1
    /\ recv_buf["None"] = <<>> /\ recv_buf["stderr"] = <<>>

\* C20: while a reader is suspended on a datatype and EOF has not been
\* received, the last flow-control request of the session is not
\* pause_reading and recv_buf_len is below the limit, so that the channel
\* may deliver the data the reader waits for.
C20_NoFlowStall ==
    (~eof_received /\ \E t \in Tasks : \E d \in Datatypes : Suspended(t, d))
    => (last_flow # "pause" /\ recv_buf_len < Limit)

====
